---- MODULE Spec2Model ----
(***************************************************************************)
(* GlobalPrice product API (src/app.py, src/models.py): the Flask handlers *)
(* over the products table and the price orchestration handler that calls  *)
(* the pricing service.                                                    *)
(*                                                                         *)
(* Conventions of the model                                                *)
(*   - text that the code inspects character by character (query string    *)
(*     values, the currency path segment) is a sequence of one-character   *)
(*     strings; text the code only stores or passes on is a TLA+ string;   *)
(*   - a Python float is a fixed-point integer counting thousandths        *)
(*     (7000.00 is 7000000, 0.005 is 5);                                   *)
(*   - a dict (JSON object, query string) is a function whose DOMAIN is    *)
(*     the set of keys present;                                            *)
(*   - every handler is one atomic action: a request is parsed, the store  *)
(*     is read or written, the collaborator is called and the response is  *)
(*     built within one step.                                              *)
(***************************************************************************)
EXTENDS Integers, Sequences, FiniteSets, TLC

VARIABLES
    backend,      \* "sqlite" or "postgresql": the engine chosen at start-up
    products,     \* the products table: id -> [name, description, base_price]
    seq,          \* last value handed out by the PostgreSQL id sequence
    created,      \* history: ids ever assigned to a product
    deleted,      \* history: ids on which a DELETE has succeeded
    request,      \* the request handled last
    calls,        \* the outbound calls made for that request, with outcomes
    response      \* the response given to that request

vars == <<backend, products, seq, created, deleted, request, calls, response>>

-----------------------------------------------------------------------------
(* Bounds *)

\* Largest product id the store hands out before the model stops creating.
MaxId == 2

Ids == 1..MaxId

-----------------------------------------------------------------------------
(* Text: str.upper, str.lower, float(str) *)

LowerAlphabet ==
    <<"a","b","c","d","e","f","g","h","i","j","k","l","m",
      "n","o","p","q","r","s","t","u","v","w","x","y","z">>

UpperAlphabet ==
    <<"A","B","C","D","E","F","G","H","I","J","K","L","M",
      "N","O","P","Q","R","S","T","U","V","W","X","Y","Z">>

UpperChar(c) ==
    IF \E i \in 1..26 : LowerAlphabet[i] = c
    THEN UpperAlphabet[CHOOSE i \in 1..26 : LowerAlphabet[i] = c]
    ELSE c

LowerChar(c) ==
    IF \E i \in 1..26 : UpperAlphabet[i] = c
    THEN LowerAlphabet[CHOOSE i \in 1..26 : UpperAlphabet[i] = c]
    ELSE c

\* str.upper()
Upper(s) == [i \in 1..Len(s) |-> UpperChar(s[i])]

\* str.lower()
Lower(s) == [i \in 1..Len(s) |-> LowerChar(s[i])]

DigitChars == <<"0","1","2","3","4","5","6","7","8","9">>

IsDigit(c) == \E i \in 1..10 : DigitChars[i] = c

DigitVal(c) == (CHOOSE i \in 1..10 : DigitChars[i] = c) - 1

IsDigits(s) == \A i \in 1..Len(s) : IsDigit(s[i])

RECURSIVE DigitsValue(_)
DigitsValue(s) ==
    IF s = <<>> THEN 0
    ELSE DigitsValue(SubSeq(s, 1, Len(s) - 1)) * 10 + DigitVal(s[Len(s)])

RECURSIVE LStrip(_)
LStrip(s) == IF s # <<>> /\ Head(s) = " " THEN LStrip(Tail(s)) ELSE s

RECURSIVE RStrip(_)
RStrip(s) ==
    IF s # <<>> /\ s[Len(s)] = " " THEN RStrip(SubSeq(s, 1, Len(s) - 1)) ELSE s

\* The three leading fraction digits, padded with zeros: the thousandths.
Thousandths(fp) ==
    DigitsValue(SubSeq(fp \o <<"0","0","0">>, 1, 3))

\* float(text) of Python for decimal literals: surrounding blanks are
\* stripped, then [sign] digits [. digits] with at least one digit.
\* Exponents, "nan", "inf" and digit-group underscores are outside the
\* inputs of this model.  A failure is Python's ValueError.
ParseFloat(raw) ==
    LET t      == RStrip(LStrip(raw))
        signed == t # <<>> /\ Head(t) \in {"+", "-"}
        u      == IF signed THEN Tail(t) ELSE t
        dots   == {i \in 1..Len(u) : u[i] = "."}
        d      == IF dots = {} THEN Len(u) + 1 ELSE CHOOSE i \in dots : TRUE
        ip     == SubSeq(u, 1, d - 1)
        fp     == SubSeq(u, d + 1, Len(u))
        ok     == /\ Cardinality(dots) <= 1
                  /\ IsDigits(ip) /\ IsDigits(fp)
                  /\ Len(ip) + Len(fp) >= 1
        mag    == DigitsValue(ip) * 1000 + Thousandths(fp)
    IN  IF ok
        THEN [ok |-> TRUE, val |-> IF signed /\ Head(t) = "-" THEN 0 - mag ELSE mag,
              exc |-> "none"]
        ELSE [ok |-> FALSE, val |-> 0, exc |-> "ValueError"]

-----------------------------------------------------------------------------
(* JSON values of request bodies *)

JNum(n) == [number |-> n]
JStr(s) == [string |-> s]
JNull   == [null |-> TRUE]

\* float(value) of Python on a JSON value: a number converts, a string is
\* parsed, null raises TypeError.
Float(v) ==
    IF "number" \in DOMAIN v THEN [ok |-> TRUE, val |-> v.number, exc |-> "none"]
    ELSE IF "string" \in DOMAIN v THEN ParseFloat(v.string)
    ELSE [ok |-> FALSE, val |-> 0, exc |-> "TypeError"]

\* A dict without entries.
EmptyDict == [k \in {} |-> TRUE]

\* request.get_json(): the parsed body, or None when the request has none.
NoBody       == [has_json |-> FALSE, data |-> EmptyDict]
JsonBody(d)  == [has_json |-> TRUE, data |-> d]

-----------------------------------------------------------------------------
(* Responses *)

\* jsonify(body), status
Jsonify(status, body) ==
    [status |-> status, mimetype |-> "application/json", body |-> body,
     fault |-> "none"]

\* abort(404) inside get_or_404: no error handler is registered, so the
\* framework answers with its default HTML page for NotFound.
Abort404 ==
    [status |-> 404, mimetype |-> "text/html", body |-> EmptyDict,
     fault |-> "none"]

\* An exception no handler catches: the framework logs it and answers
\* with its HTML page for Internal Server Error.
Unhandled(exc) ==
    [status |-> 500, mimetype |-> "text/html", body |-> EmptyDict,
     fault |-> exc]

HasField(resp, key) ==
    resp.mimetype = "application/json" /\ key \in DOMAIN resp.body

-----------------------------------------------------------------------------
(* models.py *)

\* Product.to_dict
to_dict(id, p) ==
    [id |-> id, name |-> p.name, description |-> p.description,
     base_price |-> p.base_price]

SetMax(S) == CHOOSE x \in S : \A y \in S : y <= x

\* The id given to a new row of a table whose key is
\* db.Column(db.Integer, primary_key=True).  SQLite: INTEGER PRIMARY KEY
\* without AUTOINCREMENT, one more than the largest id in use.  PostgreSQL:
\* SERIAL, the next value of the sequence.
NextId(be, store, s) ==
    IF be = "sqlite"
    THEN IF DOMAIN store = {} THEN 1 ELSE SetMax(DOMAIN store) + 1
    ELSE s + 1

\* A lookup that ignores the id while the table holds a row, as
\* Product.query.first_or_404() would.
QueryFirstOr404(store, id) ==
    IF DOMAIN store # {}
    THEN LET i == CHOOSE j \in DOMAIN store : \A k \in DOMAIN store : j <= k
         IN  [found |-> TRUE, id |-> i, product |-> store[i]]
    ELSE [found |-> FALSE, id |-> id,
          product |-> [name |-> "", description |-> "", base_price |-> 0]]

\* Product.query.get_or_404(id)
GetOr404(store, id) ==
    IF id \in DOMAIN store
    THEN [found |-> TRUE, id |-> id, product |-> store[id]]
    ELSE [found |-> FALSE, id |-> id,
          product |-> [name |-> "", description |-> "", base_price |-> 0]]

\* db.session.add(p); db.session.commit()
Insert(store, id, p) ==
    [i \in DOMAIN store \cup {id} |-> IF i = id THEN p ELSE store[i]]

\* db.session.delete(p); db.session.commit()
Remove(store, id) ==
    [i \in DOMAIN store \ {id} |-> store[i]]

-----------------------------------------------------------------------------
(* Inputs of the CRUD handlers *)

CreateBodies ==
    { NoBody,
      JsonBody(EmptyDict),
      JsonBody([name |-> "iPhone 15 Pro"]),
      JsonBody([base_price |-> JNum(7000000)]),
      JsonBody([name |-> "iPhone 15 Pro", base_price |-> JNum(7000000)]),
      JsonBody([name |-> "Pixel 9", base_price |-> JStr(<<"7","5","0","0",".","5">>),
                description |-> "Titanium"]),
      JsonBody([name |-> "Pixel 9", base_price |-> JStr(<<"a","b","c">>)]),
      JsonBody([name |-> "Pixel 9", base_price |-> JNull]) }

UpdateBodies ==
    { NoBody,
      JsonBody(EmptyDict),
      JsonBody([base_price |-> JNum(7500500)]),
      JsonBody([base_price |-> JStr(<<"7","0","0","0">>)]),
      JsonBody([id |-> 2, name |-> "Pixel 9"]),
      JsonBody([description |-> "Titanium"]),
      JsonBody([name |-> "iPhone 15 Pro", description |-> ""]),
      JsonBody([name |-> "Pixel 9", base_price |-> JStr(<<"a","b","c">>)]) }

\* The bodies of the PUT requests made while the whole API is exercised.
FewUpdateBodies ==
    { NoBody,
      JsonBody([base_price |-> JNum(7500500)]),
      JsonBody([name |-> "Pixel 9", base_price |-> JStr(<<"a","b","c">>)]) }

-----------------------------------------------------------------------------
(* The CRUD handlers: each yields the response and the table it leaves *)

\* home
HomeResult ==
    Jsonify(200, [status  |-> "Product Service is running",
                  service |-> "GlobalPrice Primary API",
                  docs    |-> "/apidocs"])

\* create_product: the body is checked for its two required keys, then
\* base_price goes through float(), whose exception nothing catches.
CreateResult(be, store, s, body) ==
    LET data == body.data
        id   == NextId(be, store, s)
    IN  IF ~body.has_json \/ DOMAIN data = {}
           \/ "name" \notin DOMAIN data \/ "base_price" \notin DOMAIN data
        THEN [response |-> Jsonify(400,
                  [error |-> "Invalid data. Name and base_price are required."]),
              products |-> store, inserted |-> FALSE, id |-> 0]
        ELSE LET f == Float(data.base_price)
                 p == [name        |-> data.name,
                       description |-> IF "description" \in DOMAIN data
                                       THEN data.description ELSE "",
                       base_price  |-> f.val]
             IN  IF ~f.ok
                 THEN [response |-> Unhandled(f.exc), products |-> store,
                       inserted |-> FALSE, id |-> 0]
                 ELSE [response |-> Jsonify(201, to_dict(id, p)),
                       products |-> Insert(store, id, p),
                       inserted |-> TRUE, id |-> id]

\* list_products
ListResult(store) ==
    Jsonify(200, [items |-> {to_dict(i, store[i]) : i \in DOMAIN store}])

\* get_product
GetResult(store, id) ==
    LET q == GetOr404(store, id)
    IN  IF ~q.found THEN Abort404 ELSE Jsonify(200, to_dict(q.id, q.product))

\* An update that replaces the row: a field the body lacks is reset.
UpdateFieldsReplacing(p, data, price) ==
    [name        |-> IF "name" \in DOMAIN data THEN data.name ELSE p.name,
     base_price  |-> IF "base_price" \in DOMAIN data THEN price ELSE p.base_price,
     description |-> IF "description" \in DOMAIN data THEN data.description ELSE ""]

\* The three conditional assignments of update_product on the loaded row.
UpdateFields(p, data, price) ==
    [name        |-> IF "name" \in DOMAIN data THEN data.name ELSE p.name,
     base_price  |-> IF "base_price" \in DOMAIN data THEN price ELSE p.base_price,
     description |-> IF "description" \in DOMAIN data
                     THEN data.description ELSE p.description]

\* update_product: the body is indexed without a check (None raises
\* TypeError); an exception leaves the session uncommitted, so the row
\* keeps its stored values.
UpdateResult(store, id, body) ==
    LET q    == GetOr404(store, id)
        data == body.data
    IN  IF ~q.found THEN [response |-> Abort404, products |-> store]
        ELSE IF ~body.has_json
        THEN [response |-> Unhandled("TypeError"), products |-> store]
        ELSE LET f == IF "base_price" \in DOMAIN data
                      THEN Float(data.base_price)
                      ELSE [ok |-> TRUE, val |-> q.product.base_price, exc |-> "none"]
                 p == UpdateFields(q.product, data, f.val)
             IN  IF ~f.ok
                 THEN [response |-> Unhandled(f.exc), products |-> store]
                 ELSE [response |-> Jsonify(200, to_dict(q.id, p)),
                       products |-> Insert(store, q.id, p)]

\* delete_product
DeleteResult(store, id) ==
    LET q == GetOr404(store, id)
    IN  IF ~q.found THEN [response |-> Abort404, products |-> store, removed |-> FALSE]
        ELSE [response |-> Jsonify(200, [message |-> "Product deleted successfully"]),
              products |-> Remove(store, q.id), removed |-> TRUE]

-----------------------------------------------------------------------------
(* Inputs of the price handler *)

\* The <currency> path segment.
Currencies == { <<"u","s","d">>, <<"E","U","R">> }

\* Raw query string values that float() accepts ...
NumericRaws ==
    { <<"0",".","0","0","5">>, <<"1",".","5">>, <<"-","2">>,
      <<" ","1","0">>, <<".","5">> }

\* ... and values it rejects.
NonNumericRaws ==
    { <<>>, <<"n","o","t","_","a","_","n","u","m","b","e","r">>,
      <<"1",".","2",".","3">>, <<"-">> }

ForcePanicRaws ==
    { <<"t","r","u","e">>, <<"Y","E","S">>, <<"O","n">>, <<"1">>,
      <<"f","a","l","s","e">>, <<"0">>, <<>>, <<"y">> }

\* The dicts with at most the one key, its value drawn from S.
Opt(key, S) == {EmptyDict} \cup {key :> v : v \in S}

\* request.args for every combination of the four parameters.
Queries(A, V, M, F) ==
    { a @@ v @@ m @@ f :
        a \in Opt("admin_fee", A), v \in Opt("volatility_threshold", V),
        m \in Opt("max_panic_margin", M), f \in Opt("force_panic", F) }

AllQueries ==
    Queries({ <<"0",".","0","0","5">>, <<" ","1","0">>, <<>>,
              <<"n","o","t","_","a","_","n","u","m","b","e","r">>, <<"-">> },
            { <<"-","2">>, <<"1",".","2",".","3">> },
            { <<"1",".","5">>, <<".","5">>, <<>> },
            ForcePanicRaws)

\* The parameters of the requests made while the catalogue is exercised.
FewQueries ==
    { ("admin_fee" :> <<"0",".","0","0","5">>) @@ ("force_panic" :> <<"Y","E","S">>) }

\* What the pricing service does with one POST /convert.
Responded(status, text) ==
    [kind |-> "response", status |-> status, text |-> text, exc |-> "none"]

Raised(exc) ==
    [kind |-> "exception", status |-> 0, text |-> "", exc |-> exc]

ConversionText == "{\"converted_amount\": 50.0, \"currency\": \"USD\"}"

AllOutcomes ==
    { Responded(st, tx) :
        st \in {200, 201, 400, 500},
        tx \in {ConversionText, "Internal Server Error", ""} }
    \cup { Raised("ConnectionError"), Raised("ConnectTimeout"),
           Raised("ReadTimeout") }

FewOutcomes ==
    { Responded(200, ConversionText), Responded(500, "Internal Server Error"),
      Raised("ConnectionError") }

-----------------------------------------------------------------------------
(* The price handler *)

\* os.environ.get('PRICING_SERVICE_URL', 'http://localhost:5001')
pricing_service_url == "http://localhost:5001"

\* An override that falls back to a local default of 0.005 when float()
\* rejects the raw value.
FloatOverrideDefaulting(payload, args, key) ==
    IF key \in DOMAIN args /\ args[key] # <<>>
    THEN LET f == ParseFloat(args[key])
         IN  IF f.ok THEN (key :> f.val) @@ payload ELSE (key :> 5) @@ payload
    ELSE payload

\* One of the three float overrides: the key is added when the raw value
\* is non-empty and float() accepts it; a ValueError is passed over.
FloatOverride(payload, args, key) ==
    IF key \in DOMAIN args /\ args[key] # <<>>
    THEN LET f == ParseFloat(args[key])
         IN  IF f.ok THEN (key :> f.val) @@ payload ELSE payload
    ELSE payload

\* request.args.get('force_panic', '').lower() in ['true', '1', 'yes', 'on']
ForcePanicOverride(payload, args) ==
    LET raw == IF "force_panic" \in DOMAIN args THEN args["force_panic"] ELSE <<>>
    IN  IF Lower(raw) \in { <<"t","r","u","e">>, <<"1">>, <<"y","e","s">>, <<"o","n">> }
        THEN ("force_panic" :> TRUE) @@ payload
        ELSE payload

\* The payload of the outbound call.
BuildPayload(product, currency, args) ==
    LET p0 == [base_price |-> product.base_price, target_currency |-> Upper(currency)]
        p1 == FloatOverride(p0, args, "admin_fee")
        p2 == FloatOverride(p1, args, "volatility_threshold")
        p3 == FloatOverride(p2, args, "max_panic_margin")
    IN  ForcePanicOverride(p3, args)

\* response.json(): the texts of this model that are JSON documents, with
\* their values; any other text raises JSONDecodeError.
JsonLoads(text) ==
    IF text = ConversionText
    THEN [ok |-> TRUE, exc |-> "none",
          value |-> [object |-> [converted_amount |-> 50000, currency |-> "USD"]]]
    ELSE [ok |-> FALSE, exc |-> "JSONDecodeError", value |-> JNull]

\* The classes `except requests.exceptions.Timeout` would catch instead.
IsTimeout(exc) == exc \in {"ConnectTimeout", "ReadTimeout"}

\* The classes `except requests.exceptions.ConnectionError` catches:
\* ConnectTimeout derives from ConnectionError, ReadTimeout does not.
IsConnectionError(exc) == exc \in {"ConnectionError", "ConnectTimeout"}

\* The body of the 200 answer: the product's dict plus price_in_currency.
PriceBody(id, product, conversion_data) ==
    ("price_in_currency" :> conversion_data) @@ to_dict(id, product)

\* A 502 answer that swallows the collaborator's text.
UpstreamRejectedSilently(text) ==
    Jsonify(502, [error |-> "Failed to convert price via Pricing Service"])

\* The 502 answer.
UpstreamRejected(text) ==
    Jsonify(502, [error   |-> "Failed to convert price via Pricing Service",
                  details |-> text])

\* The 503 answer.
UpstreamUnreachable ==
    Jsonify(503, [error |-> "pricing Service is unreachable. Is it running?",
                  tip   |-> "If running locally, ensure the Pricing API is on port 5001."])

\* The try block around requests.post and what follows it.
MapOutcome(id, product, outcome) ==
    IF outcome.kind = "exception"
    THEN IF IsConnectionError(outcome.exc)
         THEN UpstreamUnreachable
         ELSE Unhandled(outcome.exc)
    ELSE IF outcome.status = 200
    THEN LET j == JsonLoads(outcome.text)
         IN  IF j.ok THEN Jsonify(200, PriceBody(id, product, j.value))
             ELSE Unhandled(j.exc)
    ELSE UpstreamRejected(outcome.text)

\* requests.post(f"{pricing_service_url}/convert", json=payload, timeout=30)
Post(payload, outcome) ==
    [method |-> "POST", base |-> pricing_service_url, path |-> "/convert",
     json |-> payload, timeout |-> 30, outcome |-> outcome]

\* get_product_price_in_currency
PriceResult(store, id, currency, args, outcome) ==
    LET q == GetOr404(store, id)
    IN  IF ~q.found THEN [response |-> Abort404, calls |-> <<>>]
        ELSE [response |-> MapOutcome(q.id, q.product, outcome),
              calls    |-> <<Post(BuildPayload(q.product, currency, args), outcome)>>]

-----------------------------------------------------------------------------
(* The state machine *)

Request(op, id, currency, args, body) ==
    [op |-> op, id |-> id, currency |-> currency, args |-> args, body |-> body]

NoResponse ==
    [status |-> 0, mimetype |-> "", body |-> EmptyDict, fault |-> "none"]

\* The service after start-up on a fresh database: the engine is fixed by
\* DOCKER_ENV, db.create_all() has made the empty table.
Init ==
    /\ backend \in {"sqlite", "postgresql"}
    /\ products = EmptyDict
    /\ seq = 0
    /\ created = {}
    /\ deleted = {}
    /\ request = Request("start", 0, <<>>, EmptyDict, NoBody)
    /\ calls = <<>>
    /\ response = NoResponse

Home ==
    /\ request' = Request("home", 0, <<>>, EmptyDict, NoBody)
    /\ response' = HomeResult
    /\ calls' = <<>>
    /\ UNCHANGED <<backend, products, seq, created, deleted>>

CreateProduct ==
    \E body \in CreateBodies :
        LET r == CreateResult(backend, products, seq, body)
        IN  /\ r.inserted => r.id <= MaxId
            /\ request' = Request("create", 0, <<>>, EmptyDict, body)
            /\ response' = r.response
            /\ products' = r.products
            /\ seq' = IF r.inserted /\ backend = "postgresql" THEN r.id ELSE seq
            /\ created' = IF r.inserted THEN created \cup {r.id} ELSE created
            /\ calls' = <<>>
            /\ UNCHANGED <<backend, deleted>>

ListProducts ==
    /\ request' = Request("list", 0, <<>>, EmptyDict, NoBody)
    /\ response' = ListResult(products)
    /\ calls' = <<>>
    /\ UNCHANGED <<backend, products, seq, created, deleted>>

GetProduct ==
    \E id \in Ids :
        /\ request' = Request("get", id, <<>>, EmptyDict, NoBody)
        /\ response' = GetResult(products, id)
        /\ calls' = <<>>
        /\ UNCHANGED <<backend, products, seq, created, deleted>>

UpdateWith(B) ==
    \E id \in Ids, body \in B :
        LET r == UpdateResult(products, id, body)
        IN  /\ request' = Request("update", id, <<>>, EmptyDict, body)
            /\ response' = r.response
            /\ products' = r.products
            /\ calls' = <<>>
            /\ UNCHANGED <<backend, seq, created, deleted>>

DeleteProduct ==
    \E id \in Ids :
        LET r == DeleteResult(products, id)
        IN  /\ request' = Request("delete", id, <<>>, EmptyDict, NoBody)
            /\ response' = r.response
            /\ products' = r.products
            /\ deleted' = IF r.removed THEN deleted \cup {id} ELSE deleted
            /\ calls' = <<>>
            /\ UNCHANGED <<backend, seq, created>>

UpdateProduct == UpdateWith(FewUpdateBodies)

GetProductPrice(C, Q, O) ==
    \E id \in Ids, currency \in C, args \in Q, outcome \in O :
        LET r == PriceResult(products, id, currency, args, outcome)
        IN  /\ request' = Request("price", id, currency, args, NoBody)
            /\ response' = r.response
            /\ calls' = r.calls
            /\ UNCHANGED <<backend, products, seq, created, deleted>>

GetProductPriceInCurrency ==
    GetProductPrice({ <<"u","s","d">> }, FewQueries, FewOutcomes)

Next ==
    \/ Home
    \/ CreateProduct
    \/ ListProducts
    \/ GetProduct
    \/ UpdateProduct
    \/ DeleteProduct
    \/ GetProductPriceInCurrency

Spec == Init /\ [][Next]_vars

\* The price handler alone, under every combination of query parameters and
\* every behaviour of the pricing service, on a catalogue holding the one
\* product a first successful POST /products has stored.  The handler
\* leaves the table as it is, so a second request would start from the
\* state the first one started from: one request per behaviour covers them.
InitPrice ==
    /\ backend \in {"sqlite", "postgresql"}
    /\ \E body \in CreateBodies :
           LET r == CreateResult(backend, EmptyDict, 0, body)
           IN  /\ r.inserted
               /\ products = r.products
               /\ request = Request("create", 0, <<>>, EmptyDict, body)
               /\ response = r.response
    /\ seq = IF backend = "postgresql" THEN 1 ELSE 0
    /\ created = {1}
    /\ deleted = {}
    /\ calls = <<>>

PriceRequests == GetProductPrice(Currencies, AllQueries, AllOutcomes)

NextPrice == request.op # "price" /\ PriceRequests

PriceSpec == InitPrice /\ [][NextPrice]_vars

\* The update handler alone, under every body, on a catalogue holding the
\* two products that two successful POST /products have stored.
InitUpdate ==
    /\ backend \in {"sqlite", "postgresql"}
    /\ \E b1 \in CreateBodies, b2 \in CreateBodies :
           LET r1 == CreateResult(backend, EmptyDict, 0, b1)
               r2 == CreateResult(backend, r1.products, 1, b2)
           IN  /\ r1.inserted /\ r2.inserted
               /\ products = r2.products
               /\ request = Request("create", 0, <<>>, EmptyDict, b2)
               /\ response = r2.response
    /\ seq = IF backend = "postgresql" THEN 2 ELSE 0
    /\ created = {1, 2}
    /\ deleted = {}
    /\ calls = <<>>

UpdateRequests == UpdateWith(UpdateBodies)

NextUpdate == UpdateRequests

UpdateSpec == InitUpdate /\ [][NextUpdate]_vars

-----------------------------------------------------------------------------
(* Properties *)

\* The price request handled last found its product and made its call.
PriceCalled ==
    request.op = "price" /\ request.id \in DOMAIN products /\ Len(calls) = 1

\* What the pricing service did with that call.
Outcome == calls[1].outcome

\* C1: a price request on an existing product is always answered with a
\* JSON body and status 200, 502 or 503, whatever the pricing service does;
\* no exception leaves the handler.
C1_PriceAlwaysStructured ==
    (request.op = "price" /\ request.id \in DOMAIN products) =>
        /\ response.status \in {200, 502, 503}
        /\ response.mimetype = "application/json"
        /\ response.fault = "none"

\* C2: a price request whose id resolves to no stored product is answered
\* with 404 and no call to the pricing service is made for it.
C2_LookupPrecedesCall ==
    (request.op = "price" /\ request.id \notin DOMAIN products) =>
        /\ response.status = 404
        /\ calls = <<>>

\* C2, its case: a price request for the id of a deleted product while
\* another product is stored.
C2_Witness ==
    /\ request.op = "price"
    /\ request.id \in deleted /\ request.id \notin DOMAIN products
    /\ DOMAIN products # {}
    /\ response.status = 404 /\ calls = <<>>

\* C3: when the pricing service answers 200, whatever its body, the caller
\* gets 200 with the product's id, name, description and base_price and the
\* service's body under price_in_currency.
C3_SuccessEmbedsBody ==
    (PriceCalled /\ Outcome.kind = "response" /\ Outcome.status = 200) =>
        /\ response.status = 200
        /\ HasField(response, "price_in_currency")
        /\ DOMAIN response.body =
               {"id", "name", "description", "base_price", "price_in_currency"}
        /\ response.body.id = request.id
        /\ response.body.name = products[request.id].name
        /\ response.body.description = products[request.id].description
        /\ response.body.base_price = products[request.id].base_price

\* C4: when the pricing service answers with a status outside 2xx, the
\* caller gets 502 with an error field and a details field holding the
\* service's response text unchanged.
C4_NonSuccessIs502 ==
    (PriceCalled /\ Outcome.kind = "response" /\ Outcome.status \notin 200..299) =>
        /\ response.status = 502
        /\ HasField(response, "error")
        /\ HasField(response, "details")
        /\ response.body.details = Outcome.text

\* C4, its case: the service answered 500 with a text and the caller got 502.
C4_Witness ==
    /\ PriceCalled
    /\ Outcome.kind = "response" /\ Outcome.status = 500
    /\ Outcome.text = "Internal Server Error"
    /\ response.status = 502

\* C5: when the connection to the pricing service fails (refused, or not
\* established in time), the caller gets 503 with an error and a tip field.
C5_UnreachableIs503 ==
    (PriceCalled /\ Outcome.kind = "exception"
        /\ Outcome.exc \in {"ConnectionError", "ConnectTimeout"}) =>
        /\ response.status = 503
        /\ HasField(response, "error")
        /\ HasField(response, "tip")

\* C5, its case: the connection was refused and the caller got 503.
C5_Witness ==
    /\ PriceCalled
    /\ Outcome.kind = "exception" /\ Outcome.exc = "ConnectionError"
    /\ response.status = 503

FloatKeys == {"admin_fee", "volatility_threshold", "max_panic_margin"}

\* The numbers the numeric raw values stand for, in thousandths.
NumericValue(raw) ==
    CASE raw = <<"0",".","0","0","5">> -> 5
      [] raw = <<"1",".","5">>         -> 1500
      [] raw = <<"-","2">>             -> 0 - 2000
      [] raw = <<" ","1","0">>         -> 10000
      [] raw = <<".","5">>             -> 500

\* C6: the outbound payload is base_price of the product, target_currency
\* uppercased, each float override iff its raw value is present and numeric,
\* and force_panic = true iff its raw value is true, 1, yes or on in any
\* case; no value of a parameter makes the request a 400.
C6_PayloadOverrides ==
    (request.op = "price" /\ request.id \in DOMAIN products) =>
        /\ Len(calls) = 1
        /\ response.status # 400
        /\ LET payload == calls[1].json
               args    == request.args
           IN  /\ {"base_price", "target_currency"} \subseteq DOMAIN payload
               /\ DOMAIN payload \subseteq
                      {"base_price", "target_currency", "force_panic"} \cup FloatKeys
               /\ payload.base_price = products[request.id].base_price
               /\ Len(payload.target_currency) = Len(request.currency)
               /\ \A i \in 1..Len(request.currency) :
                      /\ LowerChar(payload.target_currency[i])
                             = LowerChar(request.currency[i])
                      /\ \A j \in 1..26 : payload.target_currency[i] # LowerAlphabet[j]
               /\ \A k \in FloatKeys :
                      /\ (k \in DOMAIN payload)
                             <=> (k \in DOMAIN args /\ args[k] \in NumericRaws)
                      /\ (k \in DOMAIN payload) => payload[k] = NumericValue(args[k])
               /\ ("force_panic" \in DOMAIN payload)
                      <=> /\ "force_panic" \in DOMAIN args
                          /\ Upper(args["force_panic"]) \in
                                 { <<"T","R","U","E">>, <<"1">>,
                                   <<"Y","E","S">>, <<"O","N">> }
               /\ ("force_panic" \in DOMAIN payload) => payload["force_panic"] = TRUE

\* C6, its case: admin_fee=not_a_number is dropped, a numeric
\* max_panic_margin is kept and force_panic=YES is sent as true.
C6_Witness ==
    /\ PriceCalled
    /\ "admin_fee" \in DOMAIN request.args
    /\ request.args["admin_fee"] = <<"n","o","t","_","a","_","n","u","m","b","e","r">>
    /\ "max_panic_margin" \in DOMAIN request.args
    /\ request.args["max_panic_margin"] = <<"1",".","5">>
    /\ "force_panic" \in DOMAIN request.args
    /\ request.args["force_panic"] = <<"Y","E","S">>
    /\ DOMAIN calls[1].json =
           {"base_price", "target_currency", "max_panic_margin", "force_panic"}

\* C7: every response with status 400, 404, 502 or 503 has a JSON body
\* with an error field.
C7_FailuresCarryError ==
    response.status \in {400, 404, 502, 503} => HasField(response, "error")

\* C8: GET /products/{id} yields 404 for every id never created and for
\* every id on which a DELETE has succeeded, in every later state.
C8_DeletionIsPermanent ==
    \A id \in Ids :
        (id \notin created \/ id \in deleted) => GetResult(products, id).status = 404

\* The number a JSON base_price of the update bodies stands for.
BodyPrice(v) ==
    IF "number" \in DOMAIN v THEN v.number
    ELSE IF v.string = <<"7","0","0","0">> THEN 7000000 ELSE 0 - 1

\* C9: a successful PUT sets exactly the fields of name, description and
\* base_price that its body holds; the fields the body lacks, the id and
\* every other stored product stay as they were.
C9_UpdateFrame ==
    [][ (request'.op = "update" /\ response'.status = 200) =>
            LET id   == request'.id
                data == request'.body.data
            IN  /\ id \in DOMAIN products
                /\ DOMAIN products' = DOMAIN products
                /\ \A i \in DOMAIN products \ {id} : products'[i] = products[i]
                /\ response'.body.id = id
                /\ products'[id].name =
                       IF "name" \in DOMAIN data THEN data.name ELSE products[id].name
                /\ products'[id].description =
                       IF "description" \in DOMAIN data
                       THEN data.description ELSE products[id].description
                /\ products'[id].base_price =
                       IF "base_price" \in DOMAIN data
                       THEN BodyPrice(data.base_price) ELSE products[id].base_price
      ]_vars

\* C9, its case: a PUT holding only base_price has succeeded on a product
\* whose name and description are not the defaults, beside another product.
C9_Witness ==
    /\ request.op = "update" /\ response.status = 200
    /\ DOMAIN request.body.data = {"base_price"}
    /\ Cardinality(DOMAIN products) = 2
    /\ products[request.id].name = "Pixel 9"
    /\ products[request.id].description = "Titanium"
    /\ products[request.id].base_price = 7000000

\* The body lacks name or base_price, or its base_price is not numeric.
InvalidCreateBody(body) ==
    \/ ~body.has_json
    \/ "name" \notin DOMAIN body.data
    \/ "base_price" \notin DOMAIN body.data
    \/ "null" \in DOMAIN body.data.base_price
    \/ /\ "string" \in DOMAIN body.data.base_price
       /\ body.data.base_price.string = <<"a","b","c">>

\* C10: a POST /products whose body lacks name or base_price, or whose
\* base_price is not numeric, is answered with 400 and adds no product.
C10_InvalidCreateIs400 ==
    [][ (request'.op = "create" /\ InvalidCreateBody(request'.body)) =>
            /\ response'.status = 400
            /\ products' = products
      ]_vars

====
